---- MODULE Spec2Model ----
(***************************************************************************)
(* State-machine model of the MAALA audio agent (agents/audio_agent/       *)
(* core.py), the OCR agent (agents/ocr_agent/core.py) and the dashboard's  *)
(* "New Chat" handler (dashboard/app.py).                                  *)
(*                                                                         *)
(* The file system below persistence_base_dir is modelled per session     *)
(* directory: whether the directory exists, the "files" list of its        *)
(* metadata.json (when that file exists) and the Chroma collection stored  *)
(* in it (when Chroma's files exist).  A collection is abstracted to the   *)
(* set of "source" values of its documents and the number of documents.    *)
(* External calls (Groq transcription, Chroma, the LLM chain,              *)
(* shutil.rmtree) are inputs: each action draws their outcome.             *)
(***************************************************************************)
EXTENDS Integers, Sequences, FiniteSets, TLC

\* ------------------------------------------------------------------ bounds
NumFiles == 6
MaxSplits == 2
MaxTurns == 1
MaxChunks == 6
PairChunks == 2
PairFiles == 1
MaxMsgs == 4

\* ------------------------------------------------------- program constants
MaxFiles == 5
RetDuplicate == -2
RetLimit == -1
RetFailure == 0

Sessions == {"s1", "s2"}
Filenames == 1 .. NumFiles
Queries == {"What is said in the audio?"}
Modes == {"Search Agent", "Audio Agent"}
Advisory == "Please upload an audio file first."
AnswerText == "answer"
DefaultMsgs == <<[role |-> "assistant", content |-> "Hi! How can I help you today?"]>>


VARIABLES
    fs,                  \* path -> the session directory found at that path
    chat_history_store,  \* AudioAgent.chat_history_store: dict session_id -> messages
    session_store,       \* SessionManager: dict session id -> record
    ingested,            \* the sessions in which a process_audio call has succeeded
    last                 \* the call that was made last and how it ended

VARIABLES
    calls,               \* caller -> the process_audio call it has in progress
    ui                   \* st.session_state of the dashboard and its last script run
vars == <<fs, chat_history_store, session_store, ingested, last, calls, ui>>

Range(seq) == {seq[i] : i \in 1 .. Len(seq)}

\* ------------------------------------------------------------ file system
NoDir == [exists |-> FALSE,
          metadata |-> [exists |-> FALSE, files |-> <<>>],
          chroma |-> [exists |-> FALSE, sources |-> {}, nchunks |-> 0]]

\* _get_session_dir: os.path.join(persistence_base_dir, session_id)
SessionDirShared(session_id) == "s1"
SessionDir(session_id) == session_id

\* os.listdir(dir): the entries of an existing directory
ListDir(d) ==
    (IF d.metadata.exists THEN {"metadata.json"} ELSE {})
        \cup (IF d.chroma.exists THEN {"chroma"} ELSE {})

\* The number of chunks stored below persistence_base_dir
RECURSIVE TotalChunks(_)
TotalChunks(paths) ==
    IF paths = {}
    THEN 0
    ELSE LET p == CHOOSE q \in paths : TRUE
         IN  fs[p].chroma.nchunks + TotalChunks(paths \ {p})

\* get_uploaded_files: the "files" of metadata.json, [] when there is no file
FilesIn(d) == IF d.exists /\ d.metadata.exists THEN d.metadata.files ELSE <<>>
GetUploadedFiles(session_id) == FilesIn(fs[SessionDir(session_id)])

\* The filenames submitted to a session.  The code compares filenames for
\* equality only, so a new filename is represented by the least one that the
\* session has not recorded.
Offered(session_id) ==
    LET files == Range(GetUploadedFiles(session_id))
        fresh == Filenames \ files
    IN  files \cup {f \in fresh : \A g \in fresh : f <= g}

\* `if original_filename in current_files`
IsDuplicateLastOnly(current_files, original_filename) ==
    Len(current_files) > 0 /\ current_files[Len(current_files)] = original_filename
IsDuplicate(current_files, original_filename) ==
    original_filename \in Range(current_files)

\* `if len(current_files) >= 5`
AtLimitOffByOne(current_files) == Len(current_files) > MaxFiles
AtLimit(current_files) == Len(current_files) >= MaxFiles

\* `if not splits`
NoSplitsUnchecked(n) == FALSE
NoSplits(n) == n = 0

\* Chroma(persist_directory=...): opens the collection of the directory,
\* creating the directory and an empty collection when there is none
OpenStore(d) ==
    [d EXCEPT !.exists = TRUE, !.chroma.exists = TRUE]

\* Chroma.from_documents(documents=splits, persist_directory=persist_dir):
\* opens the collection (creating it when absent) and adds the n chunks
FromDocumentsOverwrite(d, source, n) ==
    [d EXCEPT !.exists = TRUE,
              !.chroma = [exists |-> TRUE,
                          sources |-> IF n > 0 THEN {source} ELSE {},
                          nchunks |-> n]]
FromDocuments(d, source, n) ==
    [OpenStore(d) EXCEPT !.chroma.sources = IF n > 0 THEN @ \cup {source} ELSE @,
                         !.chroma.nchunks = @ + n]

\* _add_file_to_metadata: makedirs, read the list, append when absent, write
AddFileToMetadata(d, filename) ==
    LET files == IF d.metadata.exists THEN d.metadata.files ELSE <<>>
    IN  IF filename \notin Range(files)
        THEN [d EXCEPT !.exists = TRUE,
                       !.metadata = [exists |-> TRUE, files |-> Append(files, filename)]]
        ELSE [d EXCEPT !.exists = TRUE]

\* shutil.rmtree(session_dir): removes the directory, or raises having
\* removed only some of its entries (those not in keep)
RemoveTreeMetadataOnly(d, rm, keep) ==
    [d EXCEPT !.metadata = NoDir.metadata]
RemoveTreeListKept(d, rm, keep) ==
    [exists |-> TRUE, metadata |-> d.metadata, chroma |-> NoDir.chroma]
RemoveTree(d, rm, keep) ==
    IF rm = "ok"
    THEN NoDir
    ELSE [exists |-> TRUE,
          metadata |-> IF "metadata.json" \in keep THEN d.metadata ELSE NoDir.metadata,
          chroma |-> IF "chroma" \in keep THEN d.chroma ELSE NoDir.chroma]

\* `del self.chat_history_store[session_id]` when the key is present
DropHistoryKept(store, session_id) == store
DropHistory(store, session_id) ==
    [k \in DOMAIN store \ {session_id} |-> store[k]]

\* get_session_history: the dict after the call (an empty history is
\* created for a session id that has none)
GetSessionHistory(store, session_id) ==
    IF session_id \in DOMAIN store
    THEN store
    ELSE [k \in DOMAIN store \cup {session_id} |->
            IF k = session_id THEN <<>> ELSE store[k]]

\* `not os.path.exists(persist_dir) or not os.listdir(persist_dir)`
VectorStoreMissing(d) == ~d.exists \/ ListDir(d) = {}

\* SessionManager.save_session(id, messages, name, agent_type)
SaveSession(store, id, messages, name, agent_type) ==
    [k \in DOMAIN store \cup {id} |->
        IF k = id
        THEN [name |-> name, agent_type |-> agent_type, messages |-> messages]
        ELSE store[k]]

\* ------------------------------------------------------------ call records
\* The record of a call: what was called (op, sid, file), how it ended (kind
\* is "return" or "raise"; code or text is the value returned), which external
\* outcome it met (why), and what the session held when it was called.  For
\* a get_response or process_audio call, prev tells whether the call before
\* it was a clear_context of the same session and how its rmtree ended.
Call(op, session_id, file, kind, code, text, why, d) ==
    [op |-> op, sid |-> session_id, file |-> file, kind |-> kind,
     code |-> code, text |-> text, why |-> why,
     hadStore |-> d.exists /\ ListDir(d) # {},
     hadHistory |-> session_id \in DOMAIN chat_history_store,
     hadFiles |-> Len(FilesIn(d)),
     clearedFiles |-> IF op = "process_audio" /\ last.op = "clear_context"
                         /\ last.sid = session_id
                      THEN last.hadFiles ELSE 0,
     prev |-> IF op \in {"get_response", "process_audio"} /\ last.op = "clear_context"
                 /\ last.sid = session_id
              THEN IF last.why = "rmtree_failed" THEN "clear_failed" ELSE "cleared"
              ELSE ""]

\* The ids create_new_session hands out, in the order the model uses them,
\* and the value of a session id that is not set
IdOrder == <<"s1", "s2", "s3">>
SessionIds == Range(IdOrder)
NoSession == "none"

\* The record of a script run that did not reach the main content router
NotRouted == [reached |-> FALSE, sid |-> NoSession, mode |-> "", stored |-> ""]

\* Two callers of process_audio (two requests served at the same time)
Callers == {"a1", "a2"}

\* A caller with no call in progress
NoCall == [pc |-> "idle", sid |-> "", file |-> 0, n |-> 0, checked |-> 0, files |-> <<>>]

Init ==
    /\ fs = [p \in SessionIds |-> NoDir]
    /\ chat_history_store = [k \in {} |-> <<>>]
    /\ session_store = [k \in {} |-> <<>>]
    /\ ingested = {}
    /\ last = [op |-> "init", sid |-> "", file |-> 0, kind |-> "return",
               code |-> 0, text |-> "", why |-> "",
               hadStore |-> FALSE, hadHistory |-> FALSE, hadFiles |-> 0, clearedFiles |-> 0, prev |-> ""]
    /\ calls = [a \in Callers |-> NoCall]
    /\ ui = [app_started |-> FALSE, current_session_id |-> NoSession,
             messages |-> <<>>, agent_mode |-> "Search Agent", rerun |-> FALSE,
             routed |-> NotRouted]

\* ------------------------------------------------------------- AudioAgent
UpsertOutcomes == {"ok", "raise_unopened", "raise_opened", "raise_partial"}

\* How the external calls of one process_audio call end: the Groq call
\* (trans), len(splits) of its text (n) and Chroma.from_documents (ups)
AudioOutcomes ==
    {[trans |-> t, n |-> 0, ups |-> "ok"] : t \in {"raise", "empty"}}
        \cup {[trans |-> "text", n |-> k, ups |-> u] :
                k \in 0 .. MaxSplits, u \in UpsertOutcomes}

\* The external outcome a call met, as recorded in its call record
Cause(ext) ==
    IF ext.trans = "raise" THEN "transcription_raised"
    ELSE IF ext.trans = "empty" THEN "empty_text"
    ELSE IF ext.n = 0 THEN "no_splits"
    ELSE ext.ups

\* What Chroma.from_documents leaves in the directory when it ends as ups
UpsertEffectSkipped(d, source, n, ups) == d
UpsertEffect(d, source, n, ups) ==
    CASE ups = "ok" -> FromDocuments(d, source, n)
      [] ups = "raise_unopened" -> d
      [] ups = "raise_opened" -> OpenStore(d)
      [] ups = "raise_partial" -> FromDocuments(d, source, 1)

\* process_audio(audio_path, session_id, original_filename, language_mode)
ProcessAudio(session_id, original_filename, ext) ==
    LET p == SessionDir(session_id)
        d == fs[p]
        current_files == GetUploadedFiles(session_id)
        Return(code, why) ==
            /\ last' = Call("process_audio", session_id, original_filename,
                            "return", code, "", why, d)
            /\ UNCHANGED <<fs, ingested>>
    IN  /\ UNCHANGED <<chat_history_store, session_store>>
        /\ IF IsDuplicate(current_files, original_filename)
           THEN Return(RetDuplicate, "duplicate")
           ELSE IF AtLimit(current_files)
           THEN Return(RetLimit, "limit")
           ELSE IF ext.trans = "raise"
           THEN Return(RetFailure, Cause(ext))
           ELSE IF ext.trans = "empty"
           THEN Return(RetFailure, Cause(ext))
           ELSE IF NoSplits(ext.n)
           THEN Return(RetFailure, Cause(ext))
           ELSE IF ext.ups = "ok"
           THEN /\ fs' = [fs EXCEPT ![p] =
                            AddFileToMetadata(
                                UpsertEffect(d, original_filename, ext.n, ext.ups),
                                original_filename)]
                /\ ingested' = ingested \cup {session_id}
                /\ last' = Call("process_audio", session_id, original_filename,
                                "return", ext.n, "", Cause(ext), d)
           ELSE /\ fs' = [fs EXCEPT ![p] =
                            UpsertEffect(d, original_filename, ext.n, ext.ups)]
                /\ UNCHANGED ingested
                /\ last' = Call("process_audio", session_id, original_filename,
                                "raise", 0, "", Cause(ext), d)

\* How shutil.rmtree ends on directory d: it removes everything, or it
\* raises and leaves the entries in keep behind
RmtreeOutcomes(d) ==
    {[rm |-> "ok", keep |-> {}]}
        \cup (IF d.exists
              THEN {[rm |-> "fail", keep |-> k] : k \in SUBSET ListDir(d)}
              ELSE {})

\* The body of clear_context(session_id)
ClearContextEffect(session_id, out) ==
    LET p == SessionDir(session_id)
        d == fs[p]
    IN  /\ fs' = IF d.exists
                 THEN [fs EXCEPT ![p] = RemoveTree(d, out.rm, out.keep)]
                 ELSE fs
        /\ chat_history_store' = DropHistory(chat_history_store, session_id)

\* clear_context(session_id), called on the agent
ClearContext(session_id, out) ==
    LET d == fs[SessionDir(session_id)]
    IN  /\ ClearContextEffect(session_id, out)
        /\ last' = Call("clear_context", session_id, 0, "return", 0, "None",
                        IF out.rm = "fail" THEN "rmtree_failed" ELSE "", d)
        /\ UNCHANGED <<session_store, ingested>>

\* get_session_history(session_id), called on its own
GetSessionHistoryCall(session_id) ==
    /\ chat_history_store' = GetSessionHistory(chat_history_store, session_id)
    /\ last' = Call("get_session_history", session_id, 0, "return", 0, "history", "",
                    fs[SessionDir(session_id)])
    /\ UNCHANGED <<fs, session_store, ingested>>

\* The step of get_response that raises ("none": no step does).  Nothing
\* can raise when the advisory string is returned, and the reformulation
\* step runs only when the session has earlier turns.
PipelineFailures(session_id) ==
    IF VectorStoreMissing(fs[SessionDir(session_id)])
    THEN {"none"}
    ELSE {"none", "open", "retrieve", "answer"}
            \cup (IF session_id \in DOMAIN chat_history_store
                     /\ chat_history_store[session_id] # <<>>
                  THEN {"reformulate"}
                  ELSE {})

\* get_response(user_input, session_id)
GetResponse(session_id, user_input, fail) ==
    LET p == SessionDir(session_id)
        d == fs[p]
        loaded == GetSessionHistory(chat_history_store, session_id)
    IN  /\ UNCHANGED <<session_store, ingested>>
        /\ IF VectorStoreMissing(d)
           THEN /\ last' = Call("get_response", session_id, 0, "return", 0, Advisory, "", d)
                /\ UNCHANGED <<fs, chat_history_store>>
           ELSE IF fail = "open"
           THEN /\ last' = Call("get_response", session_id, 0, "raise", 0, "", fail, d)
                /\ UNCHANGED <<fs, chat_history_store>>
           ELSE IF fail # "none"
           THEN /\ fs' = [fs EXCEPT ![p] = OpenStore(d)]
                /\ chat_history_store' = loaded
                /\ last' = Call("get_response", session_id, 0, "raise", 0, "", fail, d)
           ELSE /\ Len(loaded[session_id]) < 2 * MaxTurns
                /\ fs' = [fs EXCEPT ![p] = OpenStore(d)]
                /\ chat_history_store' =
                      [loaded EXCEPT ![session_id] =
                          @ \o << <<"human", user_input>>, <<"ai", AnswerText>> >>]
                /\ last' = Call("get_response", session_id, 0, "return", 0, AnswerText, "", d)

\* ---------------------------------------------------------------- OCRAgent
OcrOutcomes == {"ok", "open_raises", "invoke_raises"}

\* extract_text(image_path): the whole body is inside try/except
ExtractText(outcome) ==
    /\ last' = [op |-> "extract_text", sid |-> "", file |-> 0, kind |-> "return",
                code |-> 0,
                text |-> IF outcome = "ok" THEN "extracted" ELSE "Error extracting text",
                why |-> IF outcome = "ok" THEN "" ELSE outcome,
                hadStore |-> FALSE, hadHistory |-> FALSE, hadFiles |-> 0, clearedFiles |-> 0, prev |-> ""]
    /\ UNCHANGED <<fs, chat_history_store, session_store, ingested>>

\* --------------------------------------------------------------- dashboard
\* The "New Chat" button: create_new_session, save_session, clear_context
NewChat(ids, mode) ==
    \E new_session_id \in ids \ DOMAIN session_store :
        \E out \in RmtreeOutcomes(fs[SessionDir(new_session_id)]) :
            /\ session_store' = SaveSession(session_store, new_session_id, DefaultMsgs,
                                            "New Session", mode)
            /\ ClearContextEffect(new_session_id, out)
            /\ last' = Call("new_chat", new_session_id, 0, "return", 0, "None",
                            IF out.rm = "fail" THEN "rmtree_failed" ELSE "",
                            fs[SessionDir(new_session_id)])
            /\ UNCHANGED ingested

\* ---------------------------------------------------------- specifications
\* The chunks a process_audio call may add fit below the model's bound
Fits(ext, quota) == TotalChunks(Sessions) + ext.n <= quota

AudioUpload(ids, names, quota) ==
    \E s \in ids : \E f \in Offered(s) \cap names : \E ext \in AudioOutcomes :
        Fits(ext, quota) /\ ProcessAudio(s, f, ext) /\ UNCHANGED <<calls, ui>>

AudioClear(ids) ==
    \E s \in ids : \E out \in RmtreeOutcomes(fs[SessionDir(s)]) :
        ClearContext(s, out) /\ UNCHANGED <<calls, ui>>

AudioHistory(ids) ==
    \E s \in ids : GetSessionHistoryCall(s) /\ UNCHANGED <<calls, ui>>

AudioAnswer(ids) ==
    \E s \in ids : \E q \in Queries : \E fail \in PipelineFailures(s) :
        GetResponse(s, q, fail) /\ UNCHANGED <<calls, ui>>

OcrExtract == \E outcome \in OcrOutcomes : ExtractText(outcome) /\ UNCHANGED <<calls, ui>>

\* One session, driven up to the upload cap, and the New Chat button
Next ==
    \/ AudioUpload({"s1"}, Filenames, MaxChunks)
    \/ AudioClear({"s1"})
    \/ AudioHistory({"s1"})
    \/ AudioAnswer({"s1"})
    \/ OcrExtract
    \/ \E mode \in Modes : NewChat({"s1"}, mode) /\ UNCHANGED <<calls, ui>>

Spec == Init /\ [][Next]_vars

\* Two sessions, each holding a few files
NextPair ==
    \/ AudioUpload(Sessions, 1 .. PairFiles, PairChunks)
    \/ AudioClear(Sessions)
    \/ AudioHistory(Sessions)
    \/ AudioAnswer(Sessions)

SpecPair == Init /\ [][NextPair]_vars

\* ------------------------------------------- interleaved process_audio calls
\* process_audio run by two callers at once on one session.  A call is cut
\* where it reads or writes the session directory: the read of the file list
\* with the checks and the transcription, the upsert, the read inside
\* _add_file_to_metadata, and its write.

\* The filenames submitted while calls are in progress: the first recorded
\* one, those of the calls in progress, and the least one that is neither
\* recorded, indexed nor in progress
OfferedInterleaved(session_id) ==
    LET d == fs[SessionDir(session_id)]
        files == FilesIn(d)
        inprogress == {calls[a].file : a \in {b \in Callers : calls[b].pc # "idle"}}
        fresh == Filenames \ (Range(files) \cup d.chroma.sources \cup inprogress)
    IN  inprogress \cup {files[i] : i \in {1} \cap DOMAIN files}
            \cup {f \in fresh : \A g \in fresh : f <= g}

\* How the transcription and the split of one call end, and how its
\* upsert ends
TranscriptionOutcomes ==
    {ext \in AudioOutcomes : ext.ups = "ok" /\ (ext.trans = "raise" \/ ext.n = 1)}
InterleavedUpserts == {"ok", "raise_unopened"}

\* The record of a call that ends in caller a
Ended(a, kind, code, why, checked) ==
    /\ last' = [Call("process_audio", calls[a].sid, calls[a].file, kind, code, "",
                     why, fs[SessionDir(calls[a].sid)])
                   EXCEPT !.hadFiles = checked]
    /\ calls' = [calls EXCEPT ![a] = NoCall]

\* process_audio up to the split: the list is read once, and checked
ProcessAudioCheck(a, session_id, original_filename, ext) ==
    LET current_files == GetUploadedFiles(session_id)
        Return(code, why) ==
            /\ last' = Call("process_audio", session_id, original_filename,
                            "return", code, "", why, fs[SessionDir(session_id)])
            /\ UNCHANGED <<calls, ui>>
    IN  /\ calls[a].pc = "idle"
        /\ UNCHANGED <<ui, fs, chat_history_store, session_store, ingested>>
        /\ IF IsDuplicate(current_files, original_filename)
           THEN Return(RetDuplicate, "duplicate")
           ELSE IF AtLimit(current_files)
           THEN Return(RetLimit, "limit")
           ELSE IF ext.trans # "text" \/ NoSplits(ext.n)
           THEN Return(RetFailure, Cause(ext))
           ELSE /\ calls' = [calls EXCEPT ![a] =
                              [pc |-> "upsert", sid |-> session_id,
                               file |-> original_filename, n |-> ext.n,
                               checked |-> Len(current_files), files |-> <<>>]]
                /\ UNCHANGED last

\* Chroma.from_documents of the call in progress
ProcessAudioUpsert(a, ups) ==
    LET c == calls[a]
        p == SessionDir(c.sid)
    IN  /\ c.pc = "upsert"
        /\ fs' = [fs EXCEPT ![p] = UpsertEffect(fs[p], c.file, c.n, ups)]
        /\ UNCHANGED <<ui, chat_history_store, session_store, ingested>>
        /\ IF ups = "ok"
           THEN /\ calls' = [calls EXCEPT ![a].pc = "add_read"]
                /\ UNCHANGED last
           ELSE Ended(a, "raise", 0, ups, c.checked)

\* _add_file_to_metadata: makedirs and the read of the list
AddFileRead(a) ==
    LET c == calls[a]
        p == SessionDir(c.sid)
    IN  /\ c.pc = "add_read"
        /\ fs' = [fs EXCEPT ![p].exists = TRUE]
        /\ calls' = [calls EXCEPT ![a].pc = "add_write", ![a].files = FilesIn(fs[p])]
        /\ UNCHANGED <<ui, chat_history_store, session_store, ingested, last>>

\* _add_file_to_metadata: the list read before is extended and written, and
\* process_audio returns len(splits)
AddFileWrite(a) ==
    LET c == calls[a]
        p == SessionDir(c.sid)
    IN  /\ c.pc = "add_write"
        /\ fs' = IF c.file \notin Range(c.files)
                 THEN [fs EXCEPT ![p].metadata =
                            [exists |-> TRUE, files |-> Append(c.files, c.file)]]
                 ELSE fs
        /\ ingested' = ingested \cup {c.sid}
        /\ Ended(a, "return", c.n, "ok", c.checked)
        /\ UNCHANGED <<ui, chat_history_store, session_store>>

NextInterleaved ==
    \/ \E a \in Callers : \E f \in OfferedInterleaved("s1") :
         \E ext \in TranscriptionOutcomes : ProcessAudioCheck(a, "s1", f, ext)
    \/ \E a \in Callers : \E ups \in InterleavedUpserts :
         /\ TotalChunks(Sessions) + calls[a].n <= MaxChunks
         /\ ProcessAudioUpsert(a, ups)
    \/ \E a \in Callers : AddFileRead(a)
    \/ \E a \in Callers : AddFileWrite(a)

SpecInterleaved == Init /\ [][NextInterleaved]_vars

\* ------------------------------------------------------ dashboard script
\* One run of dashboard/app.py from top to bottom, or up to st.rerun().
\* A run state S holds st.session_state (started, cur, msgs), the session
\* store, whether st.rerun() was called, and the session id handed to
\* orchestrator.clear_context.

\* What the user types in the search chat input
LongPrompt == "a question that is longer than thirty characters"
Prompts == {"hello", LongPrompt}

\* `msg["content"][:30] + "..." if len(msg["content"]) > 30 else msg["content"]`
NewName(content) ==
    IF content = LongPrompt THEN "a question that is longer than..." ELSE content

IsPrefix(s, t) == Len(s) <= Len(t) /\ \A i \in 1 .. Len(s) : s[i] = t[i]

\* SessionManager.create_new_session(): an id no stored session has
CreateNewSession(store) ==
    LET unused == {i \in 1 .. Len(IdOrder) : IdOrder[i] \notin DOMAIN store}
    IN  IF unused = {} THEN NoSession
        ELSE IdOrder[CHOOSE i \in unused : \A j \in unused : i <= j]

\* SessionManager.list_sessions(agent_type=mode), as the set of listed ids
ListSessions(store, agent_type) ==
    {id \in DOMAIN store : store[id].agent_type = agent_type}

\* SessionManager.save_session(id, messages): name and agent_type are kept
SaveMessages(store, id, messages) ==
    SaveSession(store, id, messages,
                IF id \in DOMAIN store THEN store[id].name ELSE "New Session",
                IF id \in DOMAIN store THEN store[id].agent_type ELSE "")

\* SessionManager.save_session(id, messages, agent_type=mode): name is kept
SaveMessagesAs(store, id, messages, agent_type) ==
    SaveSession(store, id, messages,
                IF id \in DOMAIN store THEN store[id].name ELSE "New Session",
                agent_type)

\* "Force fresh start on app reload"
FreshStart(S) ==
    IF S.started THEN S
    ELSE LET new_session_id == CreateNewSession(S.store)
         IN  [S EXCEPT !.started = TRUE,
                       !.cur = new_session_id,
                       !.store = SaveSession(S.store, new_session_id, DefaultMsgs,
                                             "New Session", "Search Agent"),
                       !.msgs = DefaultMsgs]

\* A new session created and saved for the mode, and made current
WithNewSession(S, mode) ==
    LET new_id == CreateNewSession(S.store)
    IN  [S EXCEPT !.cur = new_id,
                  !.store = SaveSession(S.store, new_id, DefaultMsgs, "New Session", mode)]

\* "Ensure current session is valid for this mode"
EnsureValidSkipped(A, sessions, mode, first) == A
EnsureValid(A, sessions, mode, first) ==
    LET current_sess_exists == A.cur \in sessions
    IN  IF ~current_sess_exists /\ sessions # {}
        THEN [A EXCEPT !.cur = first]
        ELSE IF ~current_sess_exists
        THEN [WithNewSession(A, mode) EXCEPT !.rerun = TRUE]
        ELSE A

\* The sidebar block: New Chat button, session list, validity check of the
\* current session, session buttons.  first is sessions[0].
Sidebar(S, mode, ev, first) ==
    IF ev.kind = "new_chat"
    THEN LET N == WithNewSession(S, mode)
         IN  [N EXCEPT !.msgs = DefaultMsgs, !.cleared = N.cur, !.rerun = TRUE]
    ELSE LET sessions == ListSessions(S.store, mode)
             A == IF S.cur # NoSession THEN S
                  ELSE IF sessions # {} THEN [S EXCEPT !.cur = first]
                  ELSE WithNewSession(S, mode)
             B == EnsureValid(A, sessions, mode, first)
         IN  IF B.rerun THEN B
             ELSE IF ev.kind = "select" /\ ev.sid \in sessions
             THEN [B EXCEPT !.cur = ev.sid, !.rerun = TRUE]
             ELSE B

\* "Load Session Data": the messages the run works on
LoadMessagesDefault(store, cur) == DefaultMsgs
LoadMessages(store, cur) ==
    IF cur \in DOMAIN store
    THEN IF Len(store[cur].messages) <= 1 THEN DefaultMsgs ELSE store[cur].messages
    ELSE DefaultMsgs

\* search_view: the chat input appends the prompt, and after a successful
\* route_query the answer, and saves; a failure is caught
SearchView(S, ev) ==
    IF ev.kind # "prompt" THEN S
    ELSE LET asked == Append(S.msgs, [role |-> "user", content |-> ev.prompt])
             answered == Append(asked, [role |-> "assistant", content |-> AnswerText])
         IN  IF ev.ok
             THEN [S EXCEPT !.msgs = answered,
                            !.store = SaveMessages(S.store, S.cur, answered)]
             ELSE [S EXCEPT !.msgs = asked]

\* "Main Content Router": only the search view handles input here
Router(S, mode, ev) ==
    IF mode = "Search Agent" THEN SearchView(S, ev) ELSE S

\* "Update Session Name Logic (Global)"
UpdateSessionName(S, mode) ==
    LET users == {i \in 1 .. Len(S.msgs) : S.msgs[i].role = "user"}
        msg == S.msgs[CHOOSE i \in users : \A j \in users : i <= j]
    IN  IF Len(S.msgs) <= 1 THEN S
        ELSE IF S.cur \notin DOMAIN S.store \/ S.store[S.cur].name = "New Session"
        THEN IF users = {} THEN S
             ELSE [S EXCEPT !.store = SaveSession(S.store, S.cur, S.msgs,
                                                  NewName(msg.content), mode)]
        ELSE [S EXCEPT !.store = SaveMessagesAs(S.store, S.cur, S.msgs, mode)]

\* The script from the sidebar on, for a run whose sidebar did not rerun
AfterSidebar(S, mode, ev) ==
    LET L == [S EXCEPT !.msgs = LoadMessages(S.store, S.cur)]
    IN  UpdateSessionName(Router(L, mode, ev), mode)

\* What the router of the run was given: the current session id, the mode,
\* and the agent_type stored for that id when the router was reached
Routed(S, mode) ==
    [reached |-> TRUE, sid |-> S.cur, mode |-> mode,
     stored |-> IF S.cur \in DOMAIN S.store THEN S.store[S.cur].agent_type ELSE ""]

\* One script run on event ev
ScriptRun(ev, first) ==
    LET mode == IF ev.kind = "mode" THEN ev.mode ELSE ui.agent_mode
        S0 == [started |-> ui.app_started, cur |-> ui.current_session_id,
               msgs |-> ui.messages, store |-> session_store,
               rerun |-> FALSE, cleared |-> NoSession]
        F == FreshStart(S0)
        sessions == ListSessions(F.store, mode)
        B == Sidebar(F, mode, ev, first)
        E == IF B.rerun THEN B ELSE AfterSidebar(B, mode, ev)
    IN  /\ first \in (IF sessions = {} THEN {NoSession} ELSE sessions)
        /\ NoSession \notin DOMAIN E.store
        /\ session_store' = E.store
        /\ ui' = [app_started |-> E.started, current_session_id |-> E.cur,
                  messages |-> E.msgs, agent_mode |-> mode, rerun |-> E.rerun,
                  routed |-> IF B.rerun THEN NotRouted ELSE Routed(B, mode)]
        /\ IF E.cleared # NoSession
           THEN ClearContextEffect(E.cleared, [rm |-> "ok", keep |-> {}])
           ELSE UNCHANGED <<fs, chat_history_store>>
        /\ UNCHANGED <<ingested, last, calls>>

\* The messages the stored sessions hold beyond their first one
RECURSIVE AddedMessages(_, _)
AddedMessages(store, ids) ==
    IF ids = {} THEN 0
    ELSE LET id == CHOOSE i \in ids : TRUE
         IN  Len(store[id].messages) - 1 + AddedMessages(store, ids \ {id})

Event(kind) == [kind |-> kind, mode |-> "", sid |-> NoSession, prompt |-> "", ok |-> TRUE]

\* The browser opens the app
FirstLoad ==
    /\ ~ui.app_started
    /\ \E first \in SessionIds \cup {NoSession} : ScriptRun(Event("load"), first)

\* The run that st.rerun() starts
Rerun ==
    /\ ui.rerun
    /\ \E first \in SessionIds \cup {NoSession} : ScriptRun(Event("rerun"), first)

Idle == ui.app_started /\ ~ui.rerun

\* The agent radio is set to another mode
ModeChange ==
    /\ Idle
    /\ \E mode \in Modes \ {ui.agent_mode} : \E first \in SessionIds \cup {NoSession} :
         ScriptRun([Event("mode") EXCEPT !.mode = mode], first)

\* The New Chat button is clicked
NewChatClick ==
    /\ Idle
    /\ \E first \in SessionIds \cup {NoSession} : ScriptRun(Event("new_chat"), first)

\* One of the session buttons the last run rendered is clicked
SessionClick ==
    /\ Idle
    /\ \E sid \in ListSessions(session_store, ui.agent_mode) :
         \E first \in SessionIds \cup {NoSession} :
           ScriptRun([Event("select") EXCEPT !.sid = sid], first)

\* A prompt is entered in the search view, and route_query returns or raises
SearchInput ==
    /\ Idle
    /\ ui.agent_mode = "Search Agent"
    /\ AddedMessages(session_store, DOMAIN session_store) + 2 <= MaxMsgs
    /\ \E prompt \in Prompts : \E ok \in BOOLEAN :
         \E first \in SessionIds \cup {NoSession} :
           ScriptRun([Event("prompt") EXCEPT !.prompt = prompt, !.ok = ok], first)

NextDashboard ==
    \/ FirstLoad
    \/ Rerun
    \/ ModeChange
    \/ NewChatClick
    \/ SessionClick
    \/ SearchInput

SpecDashboard == Init /\ [][NextDashboard]_vars

\* ------------------------------------------------------------------ claims

\* C1: a process_audio call whose original_filename is already in the
\* session's persisted file list returns -2 and leaves the file list, the
\* session directory (vector store) and the chat history as they were.
C1_DuplicateRejected ==
    [][last'.op = "process_audio"
         /\ last'.file \in Range(GetUploadedFiles(last'.sid))
       => /\ last'.kind = "return"
          /\ last'.code = RetDuplicate
          /\ UNCHANGED <<fs, chat_history_store>>]_vars

C1_Witness ==
    /\ last.op = "process_audio"
    /\ last.kind = "return"
    /\ last.code = RetDuplicate
    /\ Len(GetUploadedFiles(last.sid)) >= 2
    /\ last.file = GetUploadedFiles(last.sid)[1]
    /\ last.hadHistory

\* C2: after every call the persisted file list of each session holds at
\* most 5 filenames, and a process_audio call with a new filename made while
\* the session holds 5 filenames returns -1 and changes neither the file
\* list nor the vector store.
C2_CapHolds ==
    [][/\ \A s \in Sessions : Len(FilesIn(fs'[SessionDir(s)])) <= MaxFiles
       /\ last'.op = "process_audio"
            /\ Len(GetUploadedFiles(last'.sid)) >= MaxFiles
            /\ last'.file \notin Range(GetUploadedFiles(last'.sid))
          => /\ last'.kind = "return"
             /\ last'.code = RetLimit
             /\ UNCHANGED fs]_vars

C2_Witness ==
    /\ last.op = "process_audio"
    /\ last.kind = "return"
    /\ last.code = RetLimit
    /\ Len(GetUploadedFiles(last.sid)) = MaxFiles
    /\ last.file \notin Range(GetUploadedFiles(last.sid))

\* C3 (as claimed): in a session in which no process_audio call has
\* succeeded, get_response returns the advisory string and neither opens the
\* vector store nor creates a chat-history entry.
C3_AdvisoryBeforeIngestion ==
    [][last'.op = "get_response" /\ last'.sid \notin ingested
       => /\ last'.kind = "return"
          /\ last'.text = Advisory
          /\ UNCHANGED <<fs, chat_history_store>>]_vars

C5_FailureLeavesState ==
    [][last'.op = "process_audio"
         /\ last'.why \in {"transcription_raised", "empty_text", "no_splits"}
       => /\ last'.kind = "return"
          /\ last'.code = RetFailure
          /\ UNCHANGED <<fs, chat_history_store>>
          /\ last'.file \notin Range(FilesIn(fs'[SessionDir(last'.sid)]))]_vars

C5_Witness ==
    /\ last.op = "process_audio"
    /\ last.why = "no_splits"
    /\ last.kind = "return"
    /\ last.code = RetFailure
    /\ last.hadStore
    /\ last.hadHistory
    /\ last.file \notin Range(GetUploadedFiles(last.sid))

\* C6: process_audio returns a positive number exactly when the call both
\* added its chunks to the session's collection (created when absent, kept
\* and extended otherwise) and appended original_filename to the persisted
\* file list; a return of -2, -1 or 0 leaves the session directory unchanged.
C6_PositiveIffStored ==
    [][last'.op = "process_audio"
       => LET s == last'.sid
              f == last'.file
              d == fs[SessionDir(s)]
              e == fs'[SessionDir(s)]
              returned == last'.kind = "return"
              upserted ==
                  /\ e.chroma.exists
                  /\ e.chroma.sources = d.chroma.sources \cup {f}
                  /\ e.chroma.nchunks = d.chroma.nchunks + last'.code
              appended ==
                  /\ e.metadata.exists
                  /\ e.metadata.files = Append(FilesIn(d), f)
          IN  /\ (returned /\ last'.code > 0) <=> (upserted /\ appended)
              /\ returned /\ last'.code <= 0 => e = d]_vars

C6_Witness ==
    /\ last.op = "process_audio"
    /\ last.kind = "return"
    /\ last.code = MaxSplits
    /\ last.hadStore
    /\ Len(GetUploadedFiles(last.sid)) >= 2
    /\ GetUploadedFiles(last.sid)[Len(GetUploadedFiles(last.sid))] = last.file
    /\ last.file \in fs[SessionDir(last.sid)].chroma.sources

\* C7: clear_context returns without raising and leaves no chat-history
\* entry for the session, also when the directory deletion fails; when the
\* deletion does not fail the session directory is gone; the Session Store
\* records are unchanged.  The New Chat handler, which saves the record of
\* the new session and then clears its context, leaves that record in place.
C7_ClearContextFrame ==
    [][/\ last'.op = "clear_context"
          => /\ last'.kind = "return"
             /\ last'.sid \notin DOMAIN chat_history_store'
             /\ last'.why # "rmtree_failed" => ~fs'[SessionDir(last'.sid)].exists
             /\ session_store' = session_store
       /\ last'.op = "new_chat"
          => /\ last'.sid \notin DOMAIN chat_history_store'
             /\ last'.sid \in DOMAIN session_store'
             /\ session_store'[last'.sid].messages = DefaultMsgs
             /\ \A k \in DOMAIN session_store : session_store'[k] = session_store[k]]_vars

C7_Witness ==
    /\ last.op = "clear_context"
    /\ last.why = "rmtree_failed"
    /\ last.hadHistory
    /\ last.hadStore
    /\ last.sid \notin DOMAIN chat_history_store
    /\ last.sid \in DOMAIN session_store
    /\ fs[SessionDir(last.sid)].chroma.exists

\* C8 (as claimed): get_response always returns a text; a step of the
\* retrieval pipeline that raises is caught inside it.
C8_AnswerAlwaysReturns ==
    last.op = "get_response" => last.kind = "return" /\ last.text # ""

\* C9 (as claimed): every path of process_audio and of extract_text ends by
\* returning a value; no failure of an external call leaves them as an
\* exception.
C9_IngestionNeverRaises ==
    last.op \in {"process_audio", "extract_text"} => last.kind = "return"

\* C10: a process_audio, get_response, get_session_history or clear_context
\* call on one session changes neither the persisted file list, nor the
\* directory, nor the chat history of any other session.
C10_SessionsIsolated ==
    [][last'.op \in {"process_audio", "get_response", "get_session_history",
                     "clear_context"}
       => \A b \in Sessions \ {last'.sid} :
            /\ FilesIn(fs'[SessionDir(b)]) = FilesIn(fs[SessionDir(b)])
            /\ fs'[SessionDir(b)] = fs[SessionDir(b)]
            /\ b \in DOMAIN chat_history_store' <=> b \in DOMAIN chat_history_store
            /\ b \in DOMAIN chat_history_store
               => chat_history_store'[b] = chat_history_store[b]]_vars

C10_Witness ==
    /\ last.op = "clear_context"
    /\ last.hadStore
    /\ last.hadHistory
    /\ ~fs[SessionDir(last.sid)].exists
    /\ \E b \in Sessions \ {last.sid} :
          /\ Len(GetUploadedFiles(b)) > 0
          /\ fs[SessionDir(b)].chroma.nchunks > 0
          /\ b \in DOMAIN chat_history_store
          /\ chat_history_store[b] # <<>>

\* C11: with two process_audio calls interleaved on one session the persisted
\* file list grows past the cap: it does so only by the write of a call whose
\* own check read fewer than MaxFiles filenames, made when the list already
\* holds MaxFiles of them, and it then holds MaxFiles + 1.
C11_CapRacedPast ==
    [][Len(FilesIn(fs'["s1"])) > MaxFiles /\ fs'["s1"].metadata # fs["s1"].metadata
       => /\ last'.op = "process_audio"
          /\ last'.kind = "return"
          /\ last'.code > 0
          /\ last'.hadFiles < MaxFiles
          /\ Len(FilesIn(fs["s1"])) = MaxFiles
          /\ Len(FilesIn(fs'["s1"])) = MaxFiles + 1]_vars

\* the persisted list of the session holds more than five filenames, no
\* two of them equal, after a call that passed the cap check has returned
C11_Witness ==
    /\ Len(GetUploadedFiles("s1")) > MaxFiles
    /\ Cardinality(Range(GetUploadedFiles("s1"))) = Len(GetUploadedFiles("s1"))
    /\ last.op = "process_audio"
    /\ last.kind = "return"
    /\ last.code > 0
    /\ last.hadFiles < MaxFiles

\* C12: whenever a script run reaches the main content router, the session
\* id it hands to the view is a stored session whose agent_type is the
\* selected mode, after any mode changes, New Chat and session-button clicks.
C12_RoutedSessionOfMode ==
    ui.routed.reached
    => /\ ui.routed.sid \in DOMAIN session_store
       /\ ui.routed.stored = ui.routed.mode
       /\ ui.routed.mode = ui.agent_mode
       /\ ui.routed.sid = ui.current_session_id

\* the router is reached in a mode other than the one the store's first
\* session was created for, while sessions of both modes are stored
C12_Witness ==
    /\ ui.routed.reached
    /\ ui.routed.mode = "Audio Agent"
    /\ ui.routed.stored = "Audio Agent"
    /\ \E id \in DOMAIN session_store : session_store[id].agent_type = "Search Agent"
    /\ Cardinality(ListSessions(session_store, "Audio Agent")) >= 2

\* C13: every list a dashboard run persists for a session id has the list
\* persisted before for that id as a prefix.
C13_MessagesAppendOnly ==
    [][\A id \in DOMAIN session_store :
          /\ id \in DOMAIN session_store'
          /\ IsPrefix(session_store[id].messages, session_store'[id].messages)]_vars

\* a session holding two turns, the first of which failed
C13_Witness ==
    \E id \in DOMAIN session_store :
        LET m == session_store[id].messages
        IN  /\ Len(m) = 4
            /\ m[2].role = "user"
            /\ m[3].role = "user"
            /\ m[4].role = "assistant"

\* C14: a clear_context whose directory deletion does not fail leaves the
\* session with an empty uploaded-file list, and the process_audio call that
\* follows it on that session is rejected neither as a duplicate nor by the
\* cap, whatever the session had recorded before.
C14_ClearResetsUploads ==
    /\ last.op = "clear_context" /\ last.why # "rmtree_failed"
       => GetUploadedFiles(last.sid) = <<>>
    /\ last.op = "process_audio" /\ last.prev = "cleared"
       => /\ last.hadFiles = 0
          /\ ~(last.kind = "return" /\ last.code \in {RetDuplicate, RetLimit})

\* a process_audio call accepted right after a successful clear of a session
\* that was at the cap: its first file is offered again and accepted
C14_Witness ==
    /\ last.op = "process_audio"
    /\ last.prev = "cleared"
    /\ last.clearedFiles = MaxFiles
    /\ last.kind = "return"
    /\ last.code > 0
    /\ last.file = 1
    /\ ~last.hadStore
    /\ GetUploadedFiles(last.sid) = <<1>>
    /\ fs[SessionDir(last.sid)].chroma.sources = {1}

====
